---- MODULE Spec2Model ----
(***************************************************************************)
(* Indoor navigation server (src/app.py): floor geometry is loaded once,   *)
(* turned into per-floor corridor graphs, merged into one multi-floor      *)
(* graph with staircase links, and then queried by find_best_match and     *)
(* get_path.                                                               *)
(*                                                                         *)
(* Representation                                                          *)
(*   - a Python str is a sequence of one-character strings;                *)
(*   - None is the empty tuple <<>>;                                       *)
(*   - a coordinate is <<x, y>> with integer x, y; a node of G_all is      *)
(*     <<level, coordinate>>;                                              *)
(*   - an nx.Graph is [nodes |-> sequence in insertion order,              *)
(*     w |-> function from the edges {u, v} to their weight];              *)
(*   - every weight and length is kept in half units (WeightScale = 2 per  *)
(*     unit of distance), so that the connector weight 0.5 is the integer  *)
(*     1 and the staircase weight 1.0 is the integer 2.                    *)
(***************************************************************************)
EXTENDS Integers, Sequences, FiniteSets, TLC

VARIABLES files, pc, floor_gdfs, floor_graphs, floor_stairs, G_all,
          stair_pairs, all_rooms, response

vars == <<files, pc, floor_gdfs, floor_graphs, floor_stairs, G_all,
          stair_pairs, all_rooms, response>>

None == <<>>

(***************************************************************************)
(* Strings                                                                 *)
(***************************************************************************)

\* the characters that occur, in code point order (Python compares str by it)
CharOrder ==
    <<" ", "#", "-", "0", "1", "2", "3", "9",
      "C", "E", "G", "L", "O", "S", "X",
      "a", "b", "c", "d", "e", "f", "g", "i", "l", "o", "r", "s", "t", "x", "z">>

LowerMap ==
    [C |-> "c", E |-> "e", G |-> "g", L |-> "l", O |-> "o", S |-> "s", X |-> "x"]

Digits == {"0", "1", "2", "3", "9"}

Letters == {"C", "E", "G", "L", "O", "S", "X",
            "a", "b", "c", "d", "e", "f", "g", "i", "l", "o", "r", "s", "t", "x", "z"}

LowerChar(c) == IF c \in DOMAIN LowerMap THEN LowerMap[c] ELSE c

\* str.lower()
Lower(s) == [i \in 1..Len(s) |-> LowerChar(s[i])]

IsSpace(c) == c = " "

\* str.isalnum() of one character
IsAlnum(c) == c \in Digits \cup Letters

RECURSIVE LStrip(_)
LStrip(s) == IF s # <<>> /\ IsSpace(Head(s)) THEN LStrip(Tail(s)) ELSE s

RECURSIVE RStrip(_)
RStrip(s) ==
    IF s # <<>> /\ IsSpace(s[Len(s)]) THEN RStrip(SubSeq(s, 1, Len(s) - 1)) ELSE s

\* str.strip()
Strip(s) == RStrip(LStrip(s))

\* "".join(ch for ch in s if ch.isalnum())
AlnumOnly(s) == SelectSeq(s, IsAlnum)

\* sub in s
Contains(sub, s) ==
    \E i \in 0..(Len(s) - Len(sub)) : SubSeq(s, i + 1, i + Len(sub)) = sub

\* s[:2] and s[-2:]
First2(s) == SubSeq(s, 1, IF Len(s) < 2 THEN Len(s) ELSE 2)
Last2(s) == SubSeq(s, IF Len(s) < 2 THEN 1 ELSE Len(s) - 1, Len(s))

\* position of x in the sequence s (0 when absent)
IndexOf(s, x) == IF \E i \in 1..Len(s) : s[i] = x
                 THEN CHOOSE i \in 1..Len(s) : s[i] = x /\ \A j \in 1..(i - 1) : s[j] # x
                 ELSE 0

InSeq(s, x) == \E i \in 1..Len(s) : s[i] = x

\* ord(c), up to the order
CharRank == [c \in {CharOrder[i] : i \in 1..Len(CharOrder)} |-> IndexOf(CharOrder, c)]

\* a < b for Python str
RECURSIVE StrLess(_, _)
StrLess(a, b) ==
    IF b = <<>> THEN FALSE
    ELSE IF a = <<>> THEN TRUE
    ELSE IF Head(a) = Head(b) THEN StrLess(Tail(a), Tail(b))
    ELSE CharRank[Head(a)] < CharRank[Head(b)]

(***************************************************************************)
(* Geometry                                                                *)
(***************************************************************************)

WeightScale == 2

Dist2(p, q) == (p[1] - q[1]) * (p[1] - q[1]) + (p[2] - q[2]) * (p[2] - q[2])

ISqrt(n) == CHOOSE k \in 0..n : k * k <= n /\ (k + 1) * (k + 1) > n

\* Point(p).distance(Point(q)), in half units
Distance(p, q) == WeightScale * ISqrt(Dist2(p, q))

\* float("inf")
Inf == 1000000

(***************************************************************************)
(* nx.Graph                                                                *)
(***************************************************************************)

EmptyGraph == [nodes |-> <<>>, w |-> <<>>]

AddNode(G, n) ==
    IF InSeq(G.nodes, n) THEN G ELSE [G EXCEPT !.nodes = Append(G.nodes, n)]

\* G.add_edge(u, v, weight=wt)
AddEdge(G, u, v, wt) ==
    LET G2 == AddNode(AddNode(G, u), v)
    IN [nodes |-> G2.nodes,
        w |-> [e \in DOMAIN G.w \cup {{u, v}} |-> IF e = {u, v} THEN wt ELSE G.w[e]]]

(***************************************************************************)
(* Program constants                                                       *)
(***************************************************************************)

\* GEOJSON_PATHS.keys(), in insertion order
Levels == <<"Level_1", "Level_2", "Level_3">>

LevelSet == {Levels[i] : i \in 1..Len(Levels)}

\* the order of the level identifiers as Python str
LevelLess(a, b) == IndexOf(Levels, a) < IndexOf(Levels, b)

\* sorted(floor_gdfs.keys())
SortedLevels == SortSeq(Levels, LevelLess)

kwCorridor == <<"c", "o", "r", "r", "i", "d", "o", "r">>
kwStaircase == <<"s", "t", "a", "i", "r", "c", "a", "s", "e">>
kwExit == <<"e", "x", "i", "t">>
sentinelExit == <<"E", "x", "i", "t">>

\* weight=0.5 of a staircase connector, weight=1.0 of a cross-floor edge
ConnectorWeight == 1
StairWeight == 2

(***************************************************************************)
(* Loading (lines 26-45).  A file on disk is missing, unreadable, or holds *)
(* rows [type, name, rings, cent]: the two label columns, the boundary of  *)
(* the geometry as a sequence of coordinate sequences, and its centroid.   *)
(***************************************************************************)

EmptyGdf == [cols |-> FALSE, rows |-> <<>>]

LoadFloor(f) ==
    IF f.status = "missing" THEN EmptyGdf
    ELSE IF f.status = "unreadable" THEN EmptyGdf
    ELSE [cols |-> TRUE, rows |-> f.rows]

\* gdf.empty
GdfEmpty(gdf) == gdf.rows = <<>>

\* gdf[gdf[ROOM_TYPE].astype(str).str.contains(kw, case=False, na=False)]
RowsOfType(gdf, kw) == SelectSeq(gdf.rows, LAMBDA r : Contains(kw, Lower(r.type)))

(***************************************************************************)
(* build_floor_graph (lines 48-64)                                         *)
(***************************************************************************)

RECURSIVE AddLine(_, _, _)
AddLine(G, coords, i) ==
    IF i > Len(coords) - 1 THEN G
    ELSE AddLine(AddEdge(G, coords[i], coords[i + 1], Distance(coords[i], coords[i + 1])),
                 coords, i + 1)

RECURSIVE AddLines(_, _)
AddLines(G, lines) ==
    IF lines = <<>> THEN G ELSE AddLines(AddLine(G, Head(lines), 1), Tail(lines))

RECURSIVE AddCorridors(_, _)
AddCorridors(G, corridors) ==
    IF corridors = <<>> THEN G
    ELSE AddCorridors(AddLines(G, Head(corridors).rings), Tail(corridors))

build_floor_graph(gdf) ==
    IF GdfEmpty(gdf) \/ ~gdf.cols THEN EmptyGraph
    ELSE AddCorridors(EmptyGraph, RowsOfType(gdf, kwCorridor))

(***************************************************************************)
(* connect_to_corridor (lines 66-81).  Distances are compared by their     *)
(* squares, which orders them as the distances themselves.                 *)
(***************************************************************************)

RECURSIVE SnapLoop(_, _, _, _, _)
SnapLoop(pt, nodes, i, nearest, min_d) ==
    IF i > Len(nodes) THEN nearest
    ELSE LET d == Dist2(pt, nodes[i])
         IN IF d < min_d THEN SnapLoop(pt, nodes, i + 1, nodes[i], d)
            ELSE SnapLoop(pt, nodes, i + 1, nearest, min_d)

\* the variant that compares with <= : among equidistant nodes the last one wins
SnapToLastNearest(point, G) ==
    IF Len(G.nodes) = 0 THEN None
    ELSE G.nodes[CHOOSE i \in 1..Len(G.nodes) :
                    \A j \in 1..Len(G.nodes) :
                        /\ Dist2(point, G.nodes[i]) <= Dist2(point, G.nodes[j])
                        /\ Dist2(point, G.nodes[i]) = Dist2(point, G.nodes[j]) => j <= i]

connect_to_corridor(point, G) ==
    IF Len(G.nodes) = 0 THEN None
    ELSE SnapLoop(point, G.nodes, 1, None, Inf)

(***************************************************************************)
(* Floor graphs and staircases (lines 103-124)                             *)
(***************************************************************************)

ConnectStair(G, c) ==
    LET nearest == connect_to_corridor(c, G)
    IN IF nearest # None THEN AddEdge(G, c, nearest, ConnectorWeight) ELSE G

RECURSIVE StairLoop(_, _, _)
StairLoop(G, stairs, stair_nodes) ==
    IF stairs = <<>> THEN [G |-> G, stair_nodes |-> stair_nodes]
    ELSE StairLoop(ConnectStair(G, Head(stairs).cent), Tail(stairs),
                   Append(stair_nodes, Head(stairs).cent))

BuildFloor(gdf) ==
    LET G == build_floor_graph(gdf)
    IN IF ~GdfEmpty(gdf) THEN StairLoop(G, RowsOfType(gdf, kwStaircase), <<>>)
       ELSE [G |-> G, stair_nodes |-> <<>>]

(***************************************************************************)
(* get_stair_pairs (lines 128-162).  gdf[ROOM_TYPE] raises KeyError on a   *)
(* frame without that column, which ends the import of the module.         *)
(***************************************************************************)

\* line 154
\* the variant that asks for both ends of the names to agree
SimilarBothEnds(name_a, name_b) == First2(name_a) = First2(name_b) /\ Last2(name_a) = Last2(name_b)

SimilarId(name_a, name_b) == First2(name_a) = First2(name_b) \/ Last2(name_a) = Last2(name_b)

RECURSIVE UpperLoop(_, _, _, _, _)
UpperLoop(name_a, cent_a, stairs_b, best_match, min_dist) ==
    IF stairs_b = <<>> THEN best_match
    ELSE LET row_b == Head(stairs_b)
             name_b == Lower(Strip(row_b.name))
             cent_b == row_b.cent
             d == Dist2(cent_a, cent_b)
         IN IF SimilarId(name_a, name_b) /\ d < min_dist
            THEN UpperLoop(name_a, cent_a, Tail(stairs_b), cent_b, d)
            ELSE UpperLoop(name_a, cent_a, Tail(stairs_b), best_match, min_dist)

\* lines 160-161
WithPair(pairs, a, cent_a, b, best_match) ==
    IF best_match # None THEN Append(pairs, <<(<<a, cent_a>>), (<<b, best_match>>)>>)
    ELSE pairs

RECURSIVE LowerLoop(_, _, _, _, _)
LowerLoop(a, b, stairs_a, stairs_b, pairs) ==
    IF stairs_a = <<>> THEN pairs
    ELSE LowerLoop(a, b, Tail(stairs_a), stairs_b,
                   WithPair(pairs, a, Head(stairs_a).cent, b,
                            UpperLoop(Lower(Strip(Head(stairs_a).name)), Head(stairs_a).cent,
                                      stairs_b, None, Inf)))

\* the level paired with levels[i]
PairedIndex(i) == i + 1

RECURSIVE LevelLoop(_, _, _, _)
LevelLoop(gdfs, levels, i, pairs) ==
    IF i > Len(levels) - 1 THEN [raised |-> FALSE, pairs |-> pairs]
    ELSE LET a == levels[i]
             b == levels[PairedIndex(i)]
         IN IF ~gdfs[a].cols \/ ~gdfs[b].cols
            THEN [raised |-> TRUE, pairs |-> <<>>]
            ELSE LevelLoop(gdfs, levels, i + 1,
                           LowerLoop(a, b, RowsOfType(gdfs[a], kwStaircase),
                                     RowsOfType(gdfs[b], kwStaircase), pairs))

get_stair_pairs(gdfs) == LevelLoop(gdfs, SortedLevels, 1, <<>>)

(***************************************************************************)
(* Merge (lines 164-175)                                                   *)
(***************************************************************************)

\* the nodes and edges of one floor graph under the floor-qualified key
MergeFloor(GA, lvl, G) ==
    [nodes |-> GA.nodes \o [i \in 1..Len(G.nodes) |-> <<lvl, G.nodes[i]>>],
     w |-> [e \in DOMAIN GA.w \cup {{<<lvl, n>> : n \in e0} : e0 \in DOMAIN G.w} |->
              IF e \in DOMAIN GA.w THEN GA.w[e]
              ELSE G.w[{n[2] : n \in e}]]]

RECURSIVE MergeLoop(_, _, _)
MergeLoop(GA, graphs, i) ==
    IF i > Len(Levels) THEN GA
    ELSE MergeLoop(MergeFloor(GA, Levels[i], graphs[Levels[i]]), graphs, i + 1)

RECURSIVE AddStairEdges(_, _)
AddStairEdges(GA, pairs) ==
    IF pairs = <<>> THEN GA
    ELSE AddStairEdges(AddEdge(GA, Head(pairs)[1], Head(pairs)[2], StairWeight), Tail(pairs))

(***************************************************************************)
(* Rooms list (lines 177-200)                                              *)
(***************************************************************************)

RoomsOfFloor(lvl, gdf) ==
    [i \in 1..Len(gdf.rows) |->
        [floor |-> lvl,
         room_type |-> Strip(gdf.rows[i].type),
         room_name |-> Strip(gdf.rows[i].name),
         coords |-> gdf.rows[i].cent]]

RECURSIVE RoomsLoop(_, _)
RoomsLoop(gdfs, i) ==
    IF i > Len(Levels) THEN <<>>
    ELSE (IF GdfEmpty(gdfs[Levels[i]]) THEN <<>> ELSE RoomsOfFloor(Levels[i], gdfs[Levels[i]]))
         \o RoomsLoop(gdfs, i + 1)

\* sorted(list(S)) for a set of str
RECURSIVE SortedStrs(_)
SortedStrs(S) ==
    IF S = {} THEN <<>>
    ELSE LET m == CHOOSE x \in S : \A y \in S : ~StrLess(y, x)
         IN <<m>> \o SortedStrs(S \ {m})

room_name_list(rooms) ==
    LET named == SelectSeq(rooms, LAMBDA r : r.room_name # <<>>)
    IN [i \in 1..Len(named) |-> named[i].room_name]

room_type_list(rooms) ==
    LET typed == SelectSeq(rooms, LAMBDA r : r.room_type # <<>>)
    IN [i \in 1..Len(typed) |-> typed[i].room_type]

SeqRange(s) == {s[i] : i \in 1..Len(s)}

match_candidates(rooms) ==
    SortedStrs(SeqRange(room_name_list(rooms)) \cup SeqRange(room_type_list(rooms)))

(***************************************************************************)
(* difflib.get_close_matches(word, possibilities, n, cutoff=0.6), called   *)
(* at line 253: the possibilities whose SequenceMatcher ratio 2*M/T with   *)
(* the word is at least 0.6, best first, at most n of them.                *)
(***************************************************************************)

RECURSIVE RunLen(_, _, _, _, _, _)
RunLen(a, b, i, j, ahi, bhi) ==
    IF i > ahi \/ j > bhi \/ a[i] # b[j] THEN 0
    ELSE 1 + RunLen(a, b, i + 1, j + 1, ahi, bhi)

\* the length of the common run that starts at each pair of positions
RunTable(a, b, alo, ahi, blo, bhi) ==
    [p \in (alo..ahi) \X (blo..bhi) |-> RunLen(a, b, p[1], p[2], ahi, bhi)]

\* the longest block, the earliest in a, then the earliest in b
BestBlock(k) ==
    CHOOSE p \in DOMAIN k :
        \A q \in DOMAIN k : \/ k[q] < k[p]
                             \/ (k[q] = k[p] /\ p[1] < q[1])
                             \/ (k[q] = k[p] /\ p[1] = q[1] /\ p[2] <= q[2])

BlockOf(k, p) == <<p[1], p[2], k[p]>>

BlockIn(k) == BlockOf(k, BestBlock(k))

\* find_longest_match
LongestMatch(a, b, alo, ahi, blo, bhi) == BlockIn(RunTable(a, b, alo, ahi, blo, bhi))

\* the total size of get_matching_blocks around the block m
RECURSIVE MatchCount(_, _, _, _, _, _)
SplitCount(a, b, alo, ahi, blo, bhi, m) ==
    IF m[3] = 0 THEN 0
    ELSE m[3] + MatchCount(a, b, alo, m[1] - 1, blo, m[2] - 1)
              + MatchCount(a, b, m[1] + m[3], ahi, m[2] + m[3], bhi)

MatchCount(a, b, alo, ahi, blo, bhi) ==
    IF alo > ahi \/ blo > bhi THEN 0
    ELSE SplitCount(a, b, alo, ahi, blo, bhi, LongestMatch(a, b, alo, ahi, blo, bhi))

\* ratio() as the pair <<2*M, T>>; 1.0 when both are empty
Ratio(a, b) ==
    IF Len(a) + Len(b) = 0 THEN <<1, 1>>
    ELSE <<2 * MatchCount(a, b, 1, Len(a), 1, Len(b)), Len(a) + Len(b)>>

\* ratio >= 0.6
AboveCutoff(r) == 10 * r[1] >= 6 * r[2]

\* (score, x) > (score', x') for the tuples that nlargest orders
ScoredGreater(p, q) ==
    \/ p.score[1] * q.score[2] > q.score[1] * p.score[2]
    \/ (p.score[1] * q.score[2] = q.score[1] * p.score[2] /\ StrLess(q.x, p.x))

\* s[:n]
Take(s, n) == SubSeq(s, 1, IF Len(s) < n THEN Len(s) ELSE n)

Scored(word, possibilities) ==
    [i \in 1..Len(possibilities) |->
        [score |-> Ratio(possibilities[i], word), x |-> possibilities[i]]]

Unscored(result) == [i \in 1..Len(result) |-> result[i].x]

get_close_matches(word, possibilities, n) ==
    Unscored(Take(SortSeq(SelectSeq(Scored(word, possibilities),
                                    LAMBDA e : AboveCutoff(e.score)),
                          ScoredGreater), n))

(***************************************************************************)
(* Matching (lines 202-254)                                                *)
(***************************************************************************)

canonical(s) ==
    LET s2 == Lower(Strip(s))
    IN <<s2, AlnumOnly(s2)>>

\* return (floor, node), centroid, cands
Matched(r, graphs, cands) ==
    [node |-> <<r.floor, connect_to_corridor(r.coords, graphs[r.floor])>>,
     centroid |-> r.coords,
     cands |-> cands]

NoMatch(cands) == [node |-> None, centroid |-> None, cands |-> cands]

\* if not input_str
IsFalsy(input_str) == input_str = <<>>

CloseMatchCount == 5
SubstrCandidateCount == 10

RoomNames(matches) == [i \in 1..Len(matches) |-> matches[i].room_name]

\* the tests of the five stages, q_raw and q_alnum being canonical(input_str)
\* the variant in which stage 1 accepts a name that contains the query
NameHolds(r, q_raw) == Contains(q_raw, Lower(Strip(r.room_name)))

NameEquals(r, q_raw) == Lower(Strip(r.room_name)) = q_raw
TypeEquals(r, q_raw) == Lower(Strip(r.room_type)) = q_raw
NameContains(r, q_raw) == q_raw # <<>> /\ Contains(q_raw, Lower(Strip(r.room_name)))
AlnumEquals(r, q_alnum) ==
    /\ AlnumOnly(Lower(Strip(r.room_name))) # <<>>
    /\ AlnumOnly(Lower(Strip(r.room_name))) = q_alnum
TypeContains(r, q_raw) == q_raw # <<>> /\ Contains(q_raw, Lower(Strip(r.room_type)))

\* lines 216-254, with q = (q_raw, q_alnum)
Cascade(input_str, q, rooms, graphs) ==
    LET name_matches == SelectSeq(rooms, LAMBDA r : NameEquals(r, q[1]))
        type_matches == SelectSeq(rooms, LAMBDA r : TypeEquals(r, q[1]))
        substr_matches == SelectSeq(rooms, LAMBDA r : NameContains(r, q[1]))
        alnum_matches == SelectSeq(rooms, LAMBDA r : AlnumEquals(r, q[2]))
        type_substr_matches == SelectSeq(rooms, LAMBDA r : TypeContains(r, q[1]))
    IN IF name_matches # <<>>
       THEN Matched(Head(name_matches), graphs, <<Head(name_matches).room_name>>)
       ELSE IF type_matches # <<>>
       THEN Matched(Head(type_matches), graphs, <<Head(type_matches).room_type>>)
       ELSE IF substr_matches # <<>>
       THEN Matched(Head(substr_matches), graphs,
                    RoomNames(Take(substr_matches, SubstrCandidateCount)))
       ELSE IF q[2] # <<>> /\ alnum_matches # <<>>
       THEN Matched(Head(alnum_matches), graphs, <<Head(alnum_matches).room_name>>)
       ELSE IF type_substr_matches # <<>>
       THEN Matched(Head(type_substr_matches), graphs, <<Head(type_substr_matches).room_type>>)
       ELSE NoMatch(get_close_matches(input_str, match_candidates(rooms), CloseMatchCount))

find_best_match(input_str, rooms, graphs) ==
    IF IsFalsy(input_str) THEN NoMatch(<<>>)
    ELSE Cascade(input_str, canonical(input_str), rooms, graphs)

(***************************************************************************)
(* nx.astar_path(G, source, target, weight="weight") with no heuristic,    *)
(* called at lines 297 and 317: a minimum-weight path from source to       *)
(* target; NodeNotFound when either is not a node of G, NetworkXNoPath     *)
(* when there is no path.  Which of several minimum-weight paths comes     *)
(* back is left open: AStarOutcomes is the set of all of them.             *)
(***************************************************************************)

Nodes(G) == SeqRange(G.nodes)

SetMin(S) == CHOOSE x \in S : \A y \in S : x <= y

\* one round of relaxing every edge
RelaxOnce(G, D) ==
    [n \in Nodes(G) |->
        SetMin({D[n]} \cup {D[m] + G.w[{m, n}] :
                              m \in {x \in Nodes(G) : {x, n} \in DOMAIN G.w /\ D[x] < Inf}})]

RECURSIVE Relax(_, _)
Settle(G, D, D2) == IF D2 = D THEN D ELSE Relax(G, D2)

Relax(G, D) == Settle(G, D, RelaxOnce(G, D))

\* the weight of the lightest path from s to every node (Inf: unreachable)
DistFrom(G, s) == Relax(G, [n \in Nodes(G) |-> IF n = s THEN 0 ELSE Inf])

RECURSIVE PathsTo(_, _, _, _)
PathsTo(G, D, s, t) ==
    IF t = s THEN {<<s>>}
    ELSE UNION {{Append(p, t) : p \in PathsTo(G, D, s, m)} :
                  m \in {x \in Nodes(G) : /\ x # t
                                           /\ {x, t} \in DOMAIN G.w
                                           /\ D[x] < Inf
                                           /\ D[x] + G.w[{x, t}] = D[t]}}

Raised(e) == [exc |-> e, path |-> <<>>]
Returned(p) == [exc |-> "", path |-> p]

\* the outcomes for a source of G, given the weights D of the lightest paths from it
OutcomesFrom(G, D, source, target) ==
    IF D[target] >= Inf THEN {Raised("NetworkXNoPath")}
    ELSE {Returned(p) : p \in PathsTo(G, D, source, target)}

AStarOutcomes(G, source, target) ==
    IF ~InSeq(G.nodes, source) \/ ~InSeq(G.nodes, target) THEN {Raised("NodeNotFound")}
    ELSE OutcomesFrom(G, DistFrom(G, source), source, target)

(***************************************************************************)
(* get_path (lines 273-378)                                                *)
(***************************************************************************)

\* sum(Point(u[1]).distance(Point(v[1])) for u, v in zip(path, path[1:]))
RECURSIVE PathLength(_)
PathLength(path) ==
    IF Len(path) < 2 THEN 0
    ELSE Distance(path[1][2], path[2][2]) + PathLength(Tail(path))

IsExitRoom(r) == Contains(kwExit, Lower(r.room_type)) \/ Contains(kwExit, Lower(r.room_name))

\* the nodes the Exit branch searches a path to, in the order of exit_rooms
ExitNodes(rooms, graphs) ==
    LET exit_rooms == SelectSeq(rooms, IsExitRoom)
        snapped == [i \in 1..Len(exit_rooms) |->
                       [node |-> <<exit_rooms[i].floor,
                                   connect_to_corridor(exit_rooms[i].coords,
                                                       graphs[exit_rooms[i].floor])>>,
                        cent |-> exit_rooms[i].coords]]
    IN SelectSeq(snapped, LAMBDA e : e.node[2] # None)

\* the search cost of a path: the sum of its edge weights in G_all
RECURSIVE PathWeight(_)
PathWeight(path) ==
    IF Len(path) < 2 THEN 0
    ELSE G_all.w[{path[1], path[2]}] + PathWeight(Tail(path))

\* the variant that ranks the exits by search cost
BetterByCost(e, out, best) ==
    IF out.exc # "" THEN best
    ELSE IF PathWeight(out.path) < best.len
    THEN [node |-> e.node, len |-> PathWeight(out.path), cent |-> e.cent]
    ELSE best

\* lines 296-304 for one exit e, out being what nx.astar_path did
Better(e, out, best) ==
    IF out.exc # "" THEN best
    ELSE IF PathLength(out.path) < best.len
    THEN [node |-> e.node, len |-> PathLength(out.path), cent |-> e.cent]
    ELSE best

\* the loop of lines 292-304 over the snapped exits; astar[t] is the outcome
\* of nx.astar_path(G_all, start_node, t)
RECURSIVE ExitLoop(_, _, _)
ExitLoop(exits, astar, best) ==
    IF exits = <<>> THEN best
    ELSE ExitLoop(Tail(exits), astar, Better(Head(exits), astar[Head(exits).node], best))

\* floor_paths.setdefault(f, []).append(node), a dict in insertion order
RECURSIVE GroupByFloor(_, _)
GroupByFloor(path_nodes, floor_paths) ==
    IF path_nodes = <<>> THEN floor_paths
    ELSE LET f == Head(path_nodes)[1]
             node == Head(path_nodes)[2]
             known == \E i \in 1..Len(floor_paths) : floor_paths[i].floor = f
         IN GroupByFloor(Tail(path_nodes),
               IF known
               THEN [i \in 1..Len(floor_paths) |->
                        IF floor_paths[i].floor = f
                        THEN [floor |-> f, nodes |-> Append(floor_paths[i].nodes, node)]
                        ELSE floor_paths[i]]
               ELSE Append(floor_paths, [floor |-> f, nodes |-> <<node>>]))

Reply(op, start_in, end_in) ==
    [op |-> op, start_in |-> start_in, end_in |-> end_in, status |-> "ok", error |-> "",
     node |-> None, centroid |-> None, candidates |-> <<>>,
     start_node |-> None, end_node |-> None, end_centroid |-> None, routes |-> <<>>,
     path_nodes |-> <<>>, floor_paths |-> <<>>, body |-> <<>>]

Failure(base, why, cands) ==
    [base EXCEPT !.status = "error", !.error = why, !.candidates = cands]

IsExitRequest(end_in) == Strip(end_in) = sentinelExit

\* the targets of the astar_path calls of one request, start and end being
\* what find_best_match returns for its two strings
Targets(start, end_in, end, exits) ==
    IF start.node = None THEN {}
    ELSE IF IsExitRequest(end_in) THEN {exits[i].node : i \in 1..Len(exits)}
    ELSE IF end.node = None THEN {}
    ELSE {end.node}

\* one outcome for every target
Choices(out) ==
    {f \in [DOMAIN out -> UNION {out[t] : t \in DOMAIN out}] : \A t \in DOMAIN out : f[t] \in out[t]}

\* the possible results of the astar_path calls from source
AStarChoices(GA, source, T) == Choices([t \in T |-> AStarOutcomes(GA, source, t)])

\* lines 316-323
Routed(r, out) ==
    IF out.exc = "NetworkXNoPath" THEN Failure(r, "no_path", <<>>)
    ELSE IF out.exc # "" THEN [r EXCEPT !.status = "exception", !.error = out.exc]
    ELSE [r EXCEPT !.path_nodes = out.path, !.floor_paths = GroupByFloor(out.path, <<>>)]

ResolveEnd(base, end_node, end_centroid, astar) ==
    Routed([base EXCEPT !.end_node = end_node, !.end_centroid = end_centroid], astar[end_node])

NoBest == [node |-> None, len |-> Inf, cent |-> None]

\* lines 305-307
ToBest(base, best, astar) ==
    IF best.node = None THEN Failure(base, "no_reachable_exit", <<>>)
    ELSE ResolveEnd(base, best.node, best.cent, astar)

\* lines 280-314
Dispatch(base, start, end_in, end, exits, astar) ==
    IF start.node = None THEN Failure(base, "start_not_found", start.cands)
    ELSE IF IsExitRequest(end_in) THEN ToBest(base, ExitLoop(exits, astar, NoBest), astar)
    ELSE IF end.node = None THEN Failure(base, "end_not_found", end.cands)
    ELSE ResolveEnd(base, end.node, end.centroid, astar)

get_path(start_in, end_in, start, end, exits, astar) ==
    Dispatch([Reply("get_path", start_in, end_in) EXCEPT
                 !.start_node = start.node, !.centroid = start.centroid, !.routes = astar],
             start, end_in, end, exits, astar)

(***************************************************************************)
(* get_rooms and debug_rooms (lines 261-271)                               *)
(***************************************************************************)

get_rooms(rooms) ==
    [Reply("get_rooms", <<>>, <<>>) EXCEPT
        !.body = SortedStrs(SeqRange(room_type_list(rooms)))]

debug_rooms(rooms) ==
    [Reply("debug_rooms", <<>>, <<>>) EXCEPT
        !.body = [count |-> Len(rooms),
                  room_names |-> room_name_list(rooms),
                  room_types |-> SeqRange(room_type_list(rooms)),
                  candidates_sample |-> match_candidates(rooms)]]

(***************************************************************************)
(* The files on disk and the requests                                      *)
(***************************************************************************)

\* rows of one floor file / rooms next to the corridor of the matching floors
MaxRows == 3
MaxRooms == 2

Row(type, name, rings, cent) == [type |-> type, name |-> name, rings |-> rings, cent |-> cent]

\* the boundary of a 3 x 4 corridor rectangle (in half units: 6 x 8)
Rect == <<(<<0, 0>>), (<<6, 0>>), (<<6, 8>>), (<<0, 8>>), (<<0, 0>>)>>

tCorridor == <<"C", "o", "r", "r", "i", "d", "o", "r">>
tStaircase == <<"S", "t", "a", "i", "r", "c", "a", "s", "e">>
tExit == <<"E", "x", "i", "t">>
tLab == <<"L", "a", "b">>
tOffice == <<"O", "f", "f", "i", "c", "e">>

RowPool ==
    [Level_1 |-> << Row(tCorridor, <<"C", "1">>, <<Rect>>, <<3, 4>>),
                    Row(tStaircase, <<"S", "G", "0", "1">>, <<>>, <<-3, 0>>),
                    Row(tStaircase, <<"S", "G", "0", "2">>, <<>>, <<9, 0>>),
                    Row(tStaircase, <<"S", "G", "0", "3">>, <<>>, <<12, 0>>),
                    Row(tExit, <<"X", "1">>, <<>>, <<6, 9>>) >>,
     Level_2 |-> << Row(tCorridor, <<"C", "2">>, <<Rect>>, <<3, 4>>),
                    Row(tStaircase, <<" ", "s", "g", "1", "1">>, <<>>, <<9, 0>>),
                    Row(tStaircase, <<"S", "2", "0", "1">>, <<>>, <<-3, 0>>),
                    Row(tExit, <<"X", "2">>, <<>>, <<6, -1>>) >>,
     Level_3 |-> << Row(tStaircase, <<"S", "3", "0", "1">>, <<>>, <<-3, 0>>),
                    Row(tLab, <<"L", "a", "b">>, <<>>, <<1, 1>>) >>]

\* rooms of the floors that exercise the matching cascade
RoomPool ==
    << Row(tLab, <<"L", "a", "b", " ", "1">>, <<>>, <<1, 1>>),
       Row(tOffice, <<"L", "a", "b">>, <<>>, <<5, 7>>),
       Row(<<>>, <<>>, <<>>, <<3, 4>>),
       Row(tLab, <<"#">>, <<>>, <<6, 1>>) >>

\* the rows of pool at the positions I, in file order
PickRows(pool, I) == SelectSeq(pool, LAMBDA r : IndexOf(pool, r) \in I)

Reverse(s) == [i \in 1..Len(s) |-> s[Len(s) + 1 - i]]

Layouts(pool, max) ==
    {PickRows(pool, I) : I \in {J \in SUBSET (1..Len(pool)) : Cardinality(J) <= max}}

\* the sequences of at most max distinct rows of pool, in any order
RECURSIVE Arrangements(_, _)
Arrangements(pool, max) ==
    IF max = 0 THEN {<<>>}
    ELSE LET shorter == Arrangements(pool, max - 1)
         IN shorter \cup {Append(a, pool[i]) :
                             a \in {x \in shorter : Len(x) = max - 1},
                             i \in 1..Len(pool)}

Distinct(s) == \A i, j \in 1..Len(s) : s[i] = s[j] => i = j

OkFile(rows) == [status |-> "ok", rows |-> rows]
Missing == [status |-> "missing", rows |-> <<>>]
Unreadable == [status |-> "unreadable", rows |-> <<>>]

FileChoices(l) ==
    {Missing, Unreadable} \cup {OkFile(rows) : rows \in Layouts(RowPool[l], MaxRows)}

Reversed(f) == IF f.status = "ok" THEN OkFile(Reverse(f.rows)) ELSE f

\* a building: every file is missing, unreadable, or holds some rows of its
\* pool, all files in the pool's order or all in the reverse order
BuildingFiles ==
    {[Level_1 |-> IF rev THEN Reversed(a) ELSE a,
      Level_2 |-> IF rev THEN Reversed(b) ELSE b,
      Level_3 |-> IF rev THEN Reversed(c) ELSE c] :
        a \in FileChoices("Level_1"), b \in FileChoices("Level_2"),
        c \in FileChoices("Level_3"), rev \in BOOLEAN}

\* a corridor with rooms in any order on the first floor, at most one room
\* without a corridor on the second, an empty feature collection on the third
MatchingFiles ==
    {[Level_1 |-> OkFile(<<RowPool["Level_1"][1]>> \o rooms),
      Level_2 |-> OkFile(upper),
      Level_3 |-> OkFile(<<>>)] :
        rooms \in {x \in Arrangements(RoomPool, MaxRooms) : Distinct(x)},
        upper \in {<<>>, <<RoomPool[2]>>}}

qBlank == <<" ">>
qLab == <<"L", "a", "b">>
qLab1 == <<"L", "a", "b", "1">>
qLab2 == <<"L", "a", "b", "2">>
qAb == <<" ", "a", "b">>
qDash == <<"-">>
qOffice == <<"o", "f", "f", "i", "c", "e">>
qFfi == <<"f", "f", "i">>
qC1 == <<"C", "1">>
qSG02 == <<"s", "g", "0", "2">>
qX2 == <<"X", "2">>
qExitPadded == <<" ", "E", "x", "i", "t">>

Queries ==
    {<<>>, qBlank, qLab, qLab1, qLab2, qAb, qDash, qOffice, qFfi, qC1, qSG02, qX2,
     sentinelExit, kwExit}

StartQueries == {qC1, qLab}
EndQueries == {qExitPadded, qSG02, qLab, qX2}
RouteQueries == StartQueries \cup EndQueries

(***************************************************************************)
(* The state machine: the module's top-level code runs once, block by      *)
(* block, and the request handlers run afterwards, one request at a time.  *)
(***************************************************************************)

Idle == Reply("idle", <<>>, <<>>)

Start(inputs) ==
    /\ files \in inputs
    /\ pc = "load"
    /\ floor_gdfs = <<>>
    /\ floor_graphs = <<>>
    /\ floor_stairs = <<>>
    /\ G_all = EmptyGraph
    /\ stair_pairs = <<>>
    /\ all_rooms = <<>>
    /\ response = Idle

Init == Start(BuildingFiles)
InitMatch == Start(MatchingFiles)

\* lines 26-45
LoadGeoJSONs ==
    /\ pc = "load"
    /\ floor_gdfs' = [l \in LevelSet |-> LoadFloor(files[l])]
    /\ pc' = "build"
    /\ UNCHANGED <<files, floor_graphs, floor_stairs, G_all, stair_pairs, all_rooms, response>>

\* lines 102-124
BuildFloorGraphs ==
    /\ pc = "build"
    /\ floor_graphs' = [l \in LevelSet |-> BuildFloor(floor_gdfs[l]).G]
    /\ floor_stairs' = [l \in LevelSet |-> BuildFloor(floor_gdfs[l]).stair_nodes]
    /\ pc' = "merge"
    /\ UNCHANGED <<files, floor_gdfs, G_all, stair_pairs, all_rooms, response>>

\* lines 164-170
MergeGraph ==
    /\ pc = "merge"
    /\ G_all' = MergeLoop(EmptyGraph, floor_graphs, 1)
    /\ pc' = "stairs"
    /\ UNCHANGED <<files, floor_gdfs, floor_graphs, floor_stairs, stair_pairs, all_rooms, response>>

\* lines 173-175 for r, what get_stair_pairs did
LinkFloors(r) ==
    IF r.raised
    THEN /\ pc' = "failed"
         /\ UNCHANGED <<stair_pairs, G_all>>
    ELSE /\ stair_pairs' = r.pairs
         /\ G_all' = AddStairEdges(G_all, r.pairs)
         /\ pc' = "rooms"

\* lines 172-175; an exception out of get_stair_pairs ends the start-up
ConnectStaircases ==
    /\ pc = "stairs"
    /\ LinkFloors(get_stair_pairs(floor_gdfs))
    /\ UNCHANGED <<files, floor_gdfs, floor_graphs, floor_stairs, all_rooms, response>>

\* lines 177-200
BuildRoomsList ==
    /\ pc = "rooms"
    /\ all_rooms' = RoomsLoop(floor_gdfs, 1)
    /\ pc' = "ready"
    /\ UNCHANGED <<files, floor_gdfs, floor_graphs, floor_stairs, G_all, stair_pairs, response>>

Serving == pc = "ready" /\ response = Idle

\* a call of find_best_match(q)
FindBestMatch(q) ==
    /\ Serving
    /\ LET m == find_best_match(q, all_rooms, floor_graphs)
       IN response' = [Reply("find_best_match", q, <<>>) EXCEPT
                          !.node = m.node, !.centroid = m.centroid, !.candidates = m.cands]
    /\ UNCHANGED <<files, pc, floor_gdfs, floor_graphs, floor_stairs, G_all, stair_pairs, all_rooms>>

\* the handler once its two strings are matched and the exits are snapped
Route(start_in, end_in, start, end, exits) ==
    \E astar \in AStarChoices(G_all, start.node, Targets(start, end_in, end, exits)) :
        response' = get_path(start_in, end_in, start, end, exits, astar)

\* the variant in which the handler keeps the centroid of the start room as
\* a node of its floor graph
GetPathKeepingCentroid(start_in, end_in) ==
    /\ Serving
    /\ Route(start_in, end_in,
             find_best_match(start_in, all_rooms, floor_graphs),
             find_best_match(end_in, all_rooms, floor_graphs),
             ExitNodes(all_rooms, floor_graphs))
    /\ floor_graphs' =
          IF response'.centroid = None THEN floor_graphs
          ELSE [floor_graphs EXCEPT ![response'.start_node[1]] = AddNode(@, response'.centroid)]
    /\ UNCHANGED <<files, pc, floor_gdfs, floor_stairs, G_all, stair_pairs, all_rooms>>

\* POST /get_path {start, end}
GetPath(start_in, end_in) ==
    /\ Serving
    /\ Route(start_in, end_in,
             find_best_match(start_in, all_rooms, floor_graphs),
             find_best_match(end_in, all_rooms, floor_graphs),
             ExitNodes(all_rooms, floor_graphs))
    /\ UNCHANGED <<files, pc, floor_gdfs, floor_graphs, floor_stairs, G_all, stair_pairs, all_rooms>>

\* GET /get_rooms
GetRooms ==
    /\ Serving
    /\ response' = get_rooms(all_rooms)
    /\ UNCHANGED <<files, pc, floor_gdfs, floor_graphs, floor_stairs, G_all, stair_pairs, all_rooms>>

\* GET /debug_rooms
DebugRooms ==
    /\ Serving
    /\ response' = debug_rooms(all_rooms)
    /\ UNCHANGED <<files, pc, floor_gdfs, floor_graphs, floor_stairs, G_all, stair_pairs, all_rooms>>

\* the reply leaves the server
SendResponse ==
    /\ pc = "ready"
    /\ response # Idle
    /\ response' = Idle
    /\ UNCHANGED <<files, pc, floor_gdfs, floor_graphs, floor_stairs, G_all, stair_pairs, all_rooms>>

StartUp ==
    \/ LoadGeoJSONs
    \/ BuildFloorGraphs
    \/ MergeGraph
    \/ ConnectStaircases
    \/ BuildRoomsList

Next ==
    \/ StartUp
    \/ \E q \in RouteQueries : FindBestMatch(q)
    \/ \E start_in \in StartQueries, end_in \in EndQueries : GetPath(start_in, end_in)
    \/ GetRooms
    \/ DebugRooms
    \/ SendResponse

\* the building
Spec == Init /\ [][Next]_vars

NextMatch ==
    \/ StartUp
    \/ \E q \in Queries : FindBestMatch(q)
    \/ \E start_in \in Queries, end_in \in {qLab, qBlank} : GetPath(start_in, end_in)
    \/ GetRooms
    \/ DebugRooms
    \/ SendResponse

\* the floors that exercise the matching cascade
SpecMatch == InitMatch /\ [][NextMatch]_vars

(***************************************************************************)
(* Properties                                                              *)
(***************************************************************************)

Built == pc \in {"merge", "stairs", "rooms", "ready", "failed"}
Linked == pc \in {"rooms", "ready"}
Ready == pc = "ready"

\* the staircase rows of the file of level l
StairRows(l) ==
    {files[l].rows[i] : i \in {j \in 1..Len(files[l].rows) :
                                    Contains(kwStaircase, Lower(files[l].rows[j].type))}}

\* the node is a nearest node of G to pt, and the first such in G's order
FirstNearest(pt, G, node) ==
    \E i \in 1..Len(G.nodes) :
        /\ G.nodes[i] = node
        /\ \A j \in 1..Len(G.nodes) : Dist2(pt, node) <= Dist2(pt, G.nodes[j])
        /\ \A j \in 1..(i - 1) : Dist2(pt, G.nodes[j]) > Dist2(pt, node)

\* C7: connect_to_corridor(point, G) is None when G has no node; otherwise it
\* is a node of G at least as near to the point as every node of G, and the
\* first of the nearest nodes in G's iteration order.  Stated of the snap
\* that find_best_match makes of the matched room's centroid.
C7_SnapIsFirstNearest ==
    (response.op = "find_best_match" /\ response.centroid # None) =>
        IF Len(floor_graphs[response.node[1]].nodes) = 0
        THEN response.node[2] = None
        ELSE FirstNearest(response.centroid, floor_graphs[response.node[1]], response.node[2])

\* a centroid was snapped onto a graph in which two nodes are nearest to it
C7_Witness ==
    /\ response.op = "find_best_match"
    /\ response.centroid # None
    /\ response.node[2] # None
    /\ \E m \in Nodes(floor_graphs[response.node[1]]) :
          /\ m # response.node[2]
          /\ Dist2(response.centroid, m) = Dist2(response.centroid, response.node[2])

\* the two names, trimmed and lower-cased, share their first two or their
\* last two characters
SharesEnds(na, nb) ==
    \/ First2(Lower(Strip(na))) = First2(Lower(Strip(nb)))
    \/ Last2(Lower(Strip(na))) = Last2(Lower(Strip(nb)))

\* the staircases of level b that pass the name filter for the staircase ra
Passing(ra, b) == {rb \in StairRows(b) : SharesEnds(ra.name, rb.name)}

PairSet == {stair_pairs[i] : i \in 1..Len(stair_pairs)}

\* C6: every cross-floor edge joins a staircase of level i to a staircase of
\* level i+1 of the sorted levels whose names pass the filter; every lower
\* staircase is linked to the centroid-nearest upper staircase that passes the
\* filter, and to none when none passes; the cross-floor edges of G_all are
\* exactly these pairs.
C6_StairPairs ==
    Linked =>
        /\ \A p \in PairSet :
              \E i \in 1..(Len(SortedLevels) - 1) :
                 /\ p[1][1] = SortedLevels[i]
                 /\ p[2][1] = SortedLevels[i + 1]
                 /\ \E ra \in StairRows(SortedLevels[i]) :
                       /\ ra.cent = p[1][2]
                       /\ \E rb \in Passing(ra, SortedLevels[i + 1]) : rb.cent = p[2][2]
        /\ \A i \in 1..(Len(SortedLevels) - 1) :
              \A ra \in StairRows(SortedLevels[i]) :
                 LET from == {p \in PairSet : p[1] = <<SortedLevels[i], ra.cent>>}
                     pass == Passing(ra, SortedLevels[i + 1])
                 IN IF pass = {} THEN from = {}
                    ELSE \E p \in from :
                           /\ p[2][1] = SortedLevels[i + 1]
                           /\ \E rb \in pass :
                                 /\ rb.cent = p[2][2]
                                 /\ \A rc \in pass :
                                       Dist2(ra.cent, rb.cent) <= Dist2(ra.cent, rc.cent)
        /\ \A p \in PairSet : {p[1], p[2]} \in DOMAIN G_all.w
        /\ \A e \in DOMAIN G_all.w :
              (\E u, v \in e : u[1] # v[1]) => \E p \in PairSet : e = {p[1], p[2]}

\* one upper staircase is linked to two lower staircases, and some lower
\* staircase is linked to none although the floor above has staircases
C6_Witness ==
    /\ Linked
    /\ \E p, q \in PairSet : p[1] # q[1] /\ p[2] = q[2]
    /\ \E i \in 1..(Len(SortedLevels) - 1) :
          \E ra \in StairRows(SortedLevels[i]) :
             /\ StairRows(SortedLevels[i + 1]) # {}
             /\ \A p \in PairSet : p[1] # <<SortedLevels[i], ra.cent>>

\* the corridor graph of level l: the corridor-boundary vertices and edges
CorridorGraph(l) == build_floor_graph(floor_gdfs[l])

\* C10: on a floor with a non-empty corridor graph every staircase centroid
\* has a connector edge of weight 0.5 to a nearest corridor-boundary vertex,
\* whatever other staircases the floor has; on a floor with an empty corridor
\* graph no edge is added.
C10_ConnectorToCorridor ==
    Built =>
        \A l \in LevelSet :
            IF Len(CorridorGraph(l).nodes) = 0
            THEN DOMAIN floor_graphs[l].w = {}
            ELSE \A r \in StairRows(l) :
                    \E n \in Nodes(CorridorGraph(l)) :
                       /\ \A m \in Nodes(CorridorGraph(l)) : Dist2(r.cent, n) <= Dist2(r.cent, m)
                       /\ {r.cent, n} \in DOMAIN floor_graphs[l].w
                       /\ floor_graphs[l].w[{r.cent, n}] = ConnectorWeight

\* C2: when the geometry of exactly one floor is missing or unreadable the
\* start-up still completes: it never fails, and that floor has an empty
\* graph and no staircases.
C2_MissingFloorIsEmptyFloor ==
    \A l \in LevelSet :
        (files[l].status # "ok" /\ \A k \in LevelSet \ {l} : files[k].status = "ok") =>
            /\ pc # "failed"
            /\ Built => (floor_graphs[l] = EmptyGraph /\ floor_stairs[l] = <<>>)

\* the reply is about a room that was matched on a floor whose graph has no node
Unsnappable(node) == node # None /\ Len(floor_graphs[node[1]].nodes) = 0

\* C1: when a query matches a room of a floor whose graph has no node,
\* find_best_match returns no node, and a get_path request with that query as
\* start or end ends in an error response, never in an uncaught exception.
C1_UnreachableMatchFails ==
    /\ (response.op = "find_best_match" /\ response.centroid # None
            /\ Len(floor_graphs[response.node[1]].nodes) = 0)
          => response.node = None
    /\ (response.op = "get_path"
            /\ (Unsnappable(response.start_node) \/ Unsnappable(response.end_node)))
          => response.status = "error"

\* C3: for an empty or whitespace-only query find_best_match returns no
\* node, no centroid and no candidate, whatever the rooms are.
C3_BlankQueryFails ==
    (response.op = "find_best_match" /\ Strip(response.start_in) = <<>>) =>
        /\ response.node = None
        /\ response.centroid = None
        /\ response.candidates = <<>>

\* the five stages as the claim names them, for the trimmed, lower-cased query q
StageMatch(k, r, q) ==
    CASE k = 1 -> Lower(r.room_name) = q
      [] k = 2 -> Lower(r.room_type) = q
      [] k = 3 -> Contains(q, Lower(r.room_name))
      [] k = 4 -> AlnumOnly(Lower(r.room_name)) = AlnumOnly(q)
      [] k = 5 -> Contains(q, Lower(r.room_type))

\* the same, stage 4 asking for a normalized query that is not empty
StageMatchAmended(k, r, q) ==
    IF k = 4 THEN AlnumOnly(q) # <<>> /\ StageMatch(4, r, q) ELSE StageMatch(k, r, q)

RoomSet == {all_rooms[i] : i \in 1..Len(all_rooms)}

\* the reply resolves the query q to a room that stage k matches
ResolvedBy(k, q, Match(_, _, _)) ==
    \E r \in RoomSet :
        /\ Match(k, r, q)
        /\ response.centroid = r.coords
        /\ response.node[1] = r.floor
        /\ k \in {1, 4} => response.candidates = <<r.room_name>>
        /\ k \in {2, 5} => response.candidates = <<r.room_type>>

\* the reply to a non-blank query is what the earliest matching stage gives
EarliestStageWins(Match(_, _, _)) ==
    (response.op = "find_best_match" /\ Strip(response.start_in) # <<>>) =>
        LET q == Lower(Strip(response.start_in))
            hit == {k \in 1..5 : \E r \in RoomSet : Match(k, r, q)}
        IN IF hit = {} THEN response.centroid = None
           ELSE /\ response.centroid # None
                /\ \E k \in hit : (\A j \in hit : k <= j) /\ ResolvedBy(k, q, Match)

\* C4 as stated: a non-blank query is resolved by the earliest of the stages
\* exact name, exact type, substring of name, alphanumeric-normalized exact
\* name, substring of type that has a matching room.
C4_EarliestStageWins == EarliestStageWins(StageMatch)

\* C4 amended: the same, the alphanumeric-normalized stage being consulted
\* only when the normalized query is not empty.
C4_EarliestStageWinsAmended == EarliestStageWins(StageMatchAmended)

\* the query is the exact name of a room and a substring of the name of a
\* different room that comes earlier in all_rooms, and the exact-name room is
\* the one resolved
C4_Witness ==
    /\ response.op = "find_best_match"
    /\ Strip(response.start_in) # <<>>
    /\ \E i, j \in 1..Len(all_rooms) :
          /\ i < j
          /\ Lower(all_rooms[j].room_name) = Lower(Strip(response.start_in))
          /\ Lower(all_rooms[i].room_name) # Lower(Strip(response.start_in))
          /\ Contains(Lower(Strip(response.start_in)), Lower(all_rooms[i].room_name))
          /\ \A k \in 1..Len(all_rooms) :
                Lower(all_rooms[k].room_name) = Lower(Strip(response.start_in)) => k = j
          /\ response.centroid = all_rooms[j].coords
          /\ response.centroid # all_rooms[i].coords


\* the nodes of G_all joined to a node of S by a chain of edges
RECURSIVE ReachableFrom(_)
ReachableFrom(S) ==
    LET more == S \cup {v \in Nodes(G_all) : \E u \in S : {u, v} \in DOMAIN G_all.w}
    IN IF more = S THEN S ELSE ReachableFrom(more)

\* the exit candidates that snap to a node, as global nodes
ExitCandidates ==
    {<<all_rooms[i].floor, connect_to_corridor(all_rooms[i].coords, floor_graphs[all_rooms[i].floor])>> :
        i \in {j \in 1..Len(all_rooms) :
                  /\ (Contains(kwExit, Lower(all_rooms[j].room_type))
                        \/ Contains(kwExit, Lower(all_rooms[j].room_name)))
                  /\ Len(floor_graphs[all_rooms[j].floor].nodes) > 0}}

ReachableExits ==
    IF response.start_node \in Nodes(G_all)
    THEN ExitCandidates \cap ReachableFrom({response.start_node})
    ELSE {}

ExitReply ==
    /\ response.op = "get_path"
    /\ IsExitRequest(response.end_in)
    /\ response.start_node # None

\* C5: an "Exit" request from a resolved start ends at a reachable exit
\* candidate whose path has the least geometric length among the reachable
\* candidates, candidates that do not snap or cannot be reached are passed
\* over, and it fails with "no reachable exit" exactly when none is reachable.
C5_NearestReachableExit ==
    ExitReply =>
        IF ReachableExits = {}
        THEN response.status = "error" /\ response.error = "no_reachable_exit"
        ELSE /\ response.status = "ok"
             /\ response.end_node \in ReachableExits
             /\ response.path_nodes = response.routes[response.end_node].path
             /\ Head(response.path_nodes) = response.start_node
             /\ response.path_nodes[Len(response.path_nodes)] = response.end_node
             /\ \A t \in ReachableExits :
                   /\ response.routes[t].exc = ""
                   /\ PathLength(response.path_nodes) <= PathLength(response.routes[t].path)

\* two exits are reachable and the exit chosen is the one of smaller
\* geometric length although its search cost is the larger
C5_Witness ==
    /\ ExitReply
    /\ response.status = "ok"
    /\ \E t \in ReachableExits :
          /\ PathLength(response.path_nodes) < PathLength(response.routes[t].path)
          /\ PathWeight(response.path_nodes) > PathWeight(response.routes[t].path)

\* C8: once initialization is over no request changes G_all, a floor graph,
\* a staircase list, the staircase pairs or all_rooms.
C8_QueriesReadOnly ==
    [][pc = "ready" => UNCHANGED <<G_all, floor_graphs, floor_stairs, stair_pairs, all_rooms>>]_vars

\* a get_path request has been answered with a path that changes floor
C8_Witness ==
    /\ pc = "ready"
    /\ response.op = "get_path"
    /\ response.status = "ok"
    /\ Len(response.floor_paths) > 1

RECURSIVE Ungroup(_)
Ungroup(floor_paths) ==
    IF floor_paths = <<>> THEN <<>>
    ELSE [i \in 1..Len(Head(floor_paths).nodes) |->
             <<Head(floor_paths).floor, Head(floor_paths).nodes[i]>>]
         \o Ungroup(Tail(floor_paths))

\* C9: the groups of floor_paths, taken in order, give back the path, so
\* that every group is a run of consecutive waypoints of one floor.
C9_GroupsAreRuns ==
    (response.op = "get_path" /\ response.status = "ok") =>
        Ungroup(response.floor_paths) = response.path_nodes

====
